---- MODULE Spec2Model ----
(***************************************************************************)
(* rpnpy: expression.py (tokenize, shunting_yard, main) and rpn.py         *)
(* (RPNCalculator.operator, RPNCalculator.eval, interactive).              *)
(*                                                                         *)
(* Three programs are modelled, chosen in Init by prog:                    *)
(*   "expression"  expression.main: tokenize, shunting_yard, then eval on  *)
(*                 a new RPNCalculator with the stack argument omitted;    *)
(*                 shunting_yard is also entered with a token sequence     *)
(*                 directly (a caller of the module);                      *)
(*   "interactive" rpn.interactive: one calculator, one carried-over       *)
(*                 stack, a sequence of command lines;                     *)
(*   "library"     a caller of RPNCalculator.eval holding one calculator   *)
(*                 and one list, calling eval(expr) or eval(expr, list).   *)
(*                                                                         *)
(* Python floats are modelled as exact rationals <<n, d>> in lowest terms, *)
(* d > 0.  A text is a sequence of one-character strings.  An exception is *)
(* the string of its kind, "" standing for none.                           *)
(***************************************************************************)
EXTENDS Integers, Sequences, FiniteSets, TLC

VARIABLES
    prog,      \* the program that runs: "expression", "interactive", "library"
    pc,        \* where it is: "tokenize", "reorder", "eval", "prompt", and the
               \* ends "returned", "<where> raised", "crashed", "exited"
    error,     \* the exception last raised, "" for none
    text,      \* the text read by main, or the command line read by interactive
    tokens,    \* the tokens handed to shunting_yard
    pos,       \* shunting_yard: the next token of tokens
    output,    \* shunting_yard: output
    opstack,   \* shunting_yard: stack
    rpn,       \* eval: expr
    idx,       \* eval: the next token of expr
    stack,     \* eval: stack
    ans,       \* the calculator: self.ans
    held,      \* the caller's list (interactive's stack)
    shared,    \* eval's stack is the caller's list (the stack argument is given)
    before,    \* held as it was when the running call of eval began
    pre,       \* stack as it was before the last token eval processed
    preAns,    \* ans as it was before the last token eval processed
    applied,   \* the running call has applied an operator or function
    history    \* the finished commands and calls of the session, in order

vars == <<prog, pc, error, text, tokens, pos, output, opstack,
          rpn, idx, stack, ans, held, shared, before, pre, preAns, applied,
          history>>

(***************************************************************************)
(* Bounds of the model.                                                    *)
(***************************************************************************)
\* eval calls (command lines) per interactive or library session
MaxCalls == 2
\* longest run of literals entered as one expression
MaxLits == 3
\* largest numerator or denominator of a value the model follows
MaxMagnitude == 10000

(***************************************************************************)
(* Numbers.                                                                *)
(***************************************************************************)
Abs(n) == IF n < 0 THEN -n ELSE n

RECURSIVE GCD(_, _)
GCD(a, b) == IF b = 0 THEN a ELSE GCD(b, a % b)

\* the rational n/d, d # 0, in lowest terms with a positive denominator
Rat(n, d) ==
    LET g == GCD(Abs(n), Abs(d))
        s == IF d < 0 THEN -1 ELSE 1
    IN <<(s * n) \div g, (s * d) \div g>>

Num(n) == <<n, 1>>
IsInt(x) == x[2] = 1
IsZero(x) == x[1] = 0
Small(x) == Abs(x[1]) <= MaxMagnitude /\ x[2] <= MaxMagnitude

RAdd(x, y) == Rat(x[1] * y[2] + y[1] * x[2], x[2] * y[2])
RSub(x, y) == Rat(x[1] * y[2] - y[1] * x[2], x[2] * y[2])
RMul(x, y) == Rat(x[1] * y[1], x[2] * y[2])
RDiv(x, y) == Rat(x[1] * y[2], x[2] * y[1])
RLess(x, y) == x[1] * y[2] < y[1] * x[2]
Floor(x) == x[1] \div x[2]
\* Python's float %: the result takes the sign of the divisor
RMod(x, y) == RSub(x, RMul(y, Num(Floor(RDiv(x, y)))))

\* b^e for a natural e, saturating just above MaxMagnitude
RECURSIVE IPow(_, _)
IPow(b, e) ==
    IF e = 0 THEN 1
    ELSE LET r == IPow(b, e - 1)
         IN IF Abs(r) > MaxMagnitude THEN r ELSE r * b

\* x ** y for an integral y
RPow(x, y) ==
    IF y[1] >= 0 THEN <<IPow(x[1], y[1]), IPow(x[2], y[1])>>
    ELSE Rat(IPow(x[2], -y[1]), IPow(x[1], -y[1]))

\* math.e and math.pi, to three decimals
MathE == Rat(2718, 1000)
MathPi == Rat(3142, 1000)

(***************************************************************************)
(* Tokens and the operator table.                                          *)
(***************************************************************************)
\* Token = namedtuple("Token", "type value").  A Python value is a float in a
\* Literal and a string in every other token: the model keeps the float in
\* num and the string in value, so that each field has one type.
Token(type, value) == [type |-> type, value |-> value, num |-> Num(0)]
Literal(x) == [type |-> "Literal", value |-> "", num |-> x]

Lit(n) == Literal(Num(n))
Op(s) == Token("Operator", s)
Fn(s) == Token("Function", s)
Const(s) == Token("Constant", s)
LParen == Token("LParen", "(")
RParen == Token("RParen", ")")
Separator == Token("Separator", ",")

Operator(prec, assoc) == [prec |-> prec, assoc |-> assoc]

OPS == [s \in {"+", "-", "/", "*", "^"} |->
          CASE s = "+" -> Operator(2, "L")
            [] s = "-" -> Operator(2, "L")
            [] s = "/" -> Operator(3, "L")
            [] s = "*" -> Operator(3, "L")
            [] s = "^" -> Operator(4, "R")]

(***************************************************************************)
(* tokenize.                                                               *)
(***************************************************************************)
DigitChars == {"0", "1", "2", "3", "4", "5", "6", "7", "8", "9"}
AlphaChars == {"a", "b", "c", "d", "e", "f", "g", "h", "i", "j", "k", "l", "m",
               "n", "o", "p", "q", "r", "s", "t", "u", "v", "w", "x", "y", "z"}
SpaceChars == {" "}

DigitValue(c) ==
    CASE c = "0" -> 0 [] c = "1" -> 1 [] c = "2" -> 2 [] c = "3" -> 3
      [] c = "4" -> 4 [] c = "5" -> 5 [] c = "6" -> 6 [] c = "7" -> 7
      [] c = "8" -> 8 [] c = "9" -> 9

\* ''.join(buffer)
RECURSIVE Join(_)
Join(buf) == IF buf = <<>> THEN "" ELSE buf[1] \o Join(Tail(buf))

Count(buf, S) == Cardinality({i \in 1..Len(buf) : buf[i] \in S})

\* the digits of buf read as a decimal numeral, other characters skipped
RECURSIVE Numeral(_)
Numeral(buf) ==
    IF buf = <<>> THEN 0
    ELSE LET last == buf[Len(buf)]
             front == SubSeq(buf, 1, Len(buf) - 1)
         IN IF last \in DigitChars THEN 10 * Numeral(front) + DigitValue(last)
            ELSE Numeral(front)

\* float(text) for a text of digits, '.' and '-': the value, or ValueError
FloatOf(buf) ==
    LET neg == buf # <<>> /\ buf[1] = "-"
        body == IF neg THEN Tail(buf) ELSE buf
        dot == IF \E i \in 1..Len(body) : body[i] = "."
               THEN CHOOSE i \in 1..Len(body) : body[i] = "."
               ELSE Len(body) + 1
        valid == /\ Count(body, {"-"}) = 0
                 /\ Count(body, {"."}) <= 1
                 /\ Count(body, DigitChars) >= 1
        places == IF dot > Len(body) THEN 0 ELSE Len(body) - dot
        n == Numeral(body)
    IN IF valid
       THEN [err |-> "", value |-> Rat(IF neg THEN -n ELSE n, IPow(10, places))]
       ELSE [err |-> "ValueError", value |-> Num(0)]

\* the nested empty_buffers(): letters first, then the number buffer
empty_buffers(toks, letter_buffer, number_buffer) ==
    LET token == Join(letter_buffer)
        t1 == IF letter_buffer # <<>>
              THEN IF token \in {"e", "pi"}
                   THEN Append(toks, Token("Constant", token))
                   ELSE Append(toks, Token("Function", token))
              ELSE toks
        t2 == IF number_buffer = <<"-">> THEN Append(t1, Token("Operator", "-")) ELSE t1
        f == FloatOf(number_buffer)
    IN IF number_buffer = <<>> THEN [err |-> "", tokens |-> t1]
       ELSE IF f.err # "" THEN [err |-> f.err, tokens |-> t2]
       ELSE [err |-> "", tokens |-> Append(t2, Literal(f.value))]

\* the for loop of tokenize from character i on, and the final flush
RECURSIVE TokenizeFrom(_, _, _, _, _)
TokenizeFrom(expr, i, toks, letter_buffer, number_buffer) ==
    LET flushed == empty_buffers(toks, letter_buffer, number_buffer)
        char == expr[i]
        emit(type) == IF flushed.err # "" THEN flushed
                      ELSE TokenizeFrom(expr, i + 1,
                                        Append(flushed.tokens, Token(type, char)),
                                        <<>>, <<>>)
    IN IF i > Len(expr) THEN flushed
       ELSE IF char \in DigitChars \cup {"-", "."}
         THEN TokenizeFrom(expr, i + 1, toks, letter_buffer, Append(number_buffer, char))
       ELSE IF char \in AlphaChars
         THEN IF number_buffer # <<>>
              THEN IF flushed.err # "" THEN flushed
                   ELSE TokenizeFrom(expr, i + 1, flushed.tokens, <<char>>, <<>>)
              ELSE TokenizeFrom(expr, i + 1, toks, Append(letter_buffer, char), number_buffer)
       ELSE IF char \in DOMAIN OPS THEN emit("Operator")
       ELSE IF char \in {"(", "["} THEN emit("LParen")
       ELSE IF char \in {")", "]"} THEN emit("RParen")
       ELSE IF char = "," THEN emit("Separator")
       ELSE IF char \in SpaceChars
         THEN IF flushed.err # "" THEN flushed
              ELSE TokenizeFrom(expr, i + 1, flushed.tokens, <<>>, <<>>)
       ELSE [err |-> "SyntaxError: unexpected character", tokens |-> toks]

tokenize(expr) == TokenizeFrom(expr, 1, <<>>, <<>>, <<>>)

(***************************************************************************)
(* shunting_yard: the loops of its branches.  A stack is a sequence whose  *)
(* last element is the top.                                                *)
(***************************************************************************)
Top(s) == s[Len(s)]
Pop(s) == SubSeq(s, 1, Len(s) - 1)

\* while stack and stack[-1].type != 'LParen': output.append(stack.pop())
RECURSIVE PopToLParen(_, _)
PopToLParen(stk, out) ==
    IF stk # <<>> /\ Top(stk).type # "LParen"
    THEN PopToLParen(Pop(stk), Append(out, Top(stk)))
    ELSE [stack |-> stk, output |-> out]

\* OperatorTest with the left-associative comparison turned round (>= for <=)
OperatorTestReversed(token, stk) ==
    IF token.value \notin DOMAIN OPS THEN "KeyError"
    ELSE IF /\ stk # <<>>
            /\ Top(stk).type = "Operator"
            /\ OPS[token.value].assoc = "L"
            /\ Top(stk).value \notin DOMAIN OPS THEN "KeyError"
    ELSE IF /\ stk # <<>>
            /\ Top(stk).type = "Operator"
            /\ OPS[token.value].assoc = "L"
            /\ OPS[token.value].prec >= OPS[Top(stk).value].prec THEN "pop"
    ELSE IF OPS[token.value].assoc # "R" THEN "stop"
    ELSE IF stk = <<>> THEN "IndexError"
    ELSE IF Top(stk).value \notin DOMAIN OPS THEN "KeyError"
    ELSE IF OPS[token.value].prec < OPS[Top(stk).value].prec THEN "pop"
    ELSE "stop"

\* The while condition of the Operator branch as Python groups it,
\*   (stack and top is Operator and (L and prec <= top.prec)) or (R and prec < top.prec):
\* "pop", "stop", or the exception its evaluation raises.
OperatorTest(token, stk) ==
    IF token.value \notin DOMAIN OPS THEN "KeyError"
    ELSE IF /\ stk # <<>>
            /\ Top(stk).type = "Operator"
            /\ OPS[token.value].assoc = "L"
            /\ Top(stk).value \notin DOMAIN OPS THEN "KeyError"
    ELSE IF /\ stk # <<>>
            /\ Top(stk).type = "Operator"
            /\ OPS[token.value].assoc = "L"
            /\ OPS[token.value].prec <= OPS[Top(stk).value].prec THEN "pop"
    ELSE IF OPS[token.value].assoc # "R" THEN "stop"
    ELSE IF stk = <<>> THEN "IndexError"
    ELSE IF Top(stk).value \notin DOMAIN OPS THEN "KeyError"
    ELSE IF OPS[token.value].prec < OPS[Top(stk).value].prec THEN "pop"
    ELSE "stop"

RECURSIVE OperatorLoop(_, _, _)
OperatorLoop(token, stk, out) ==
    LET t == OperatorTest(token, stk)
    IN IF t = "pop" THEN OperatorLoop(token, Pop(stk), Append(out, Top(stk)))
       ELSE IF t = "stop" THEN [err |-> "", stack |-> Append(stk, token), output |-> out]
       ELSE [err |-> t, stack |-> stk, output |-> out]

\* the closing loop: pop what is left, a bracket left on the stack is a mismatch
RECURSIVE Drain(_, _)
Drain(stk, out) ==
    IF stk = <<>> THEN [err |-> "", stack |-> stk, output |-> out]
    ELSE IF Top(stk).type \in {"LParen", "RParen"}
         THEN [err |-> "SyntaxError: mismatched parentheses", stack |-> stk, output |-> out]
         ELSE Drain(Pop(stk), Append(out, Top(stk)))

(***************************************************************************)
(* RPNCalculator.operator: the registry and its handlers.  A handler is    *)
(* given the list and the register and yields the list as it leaves it,    *)
(* the value it returns, and the exception it raises ("" for none).        *)
(* "unmodelled" marks a result outside the values the model follows.       *)
(***************************************************************************)
UnaryNames == {"!", "ln", "log2", "log10", "sqrt", "exp", "sin", "cos", "tan",
               "sinh", "cosh", "tanh", "arcsin", "arccos", "arctan",
               "arcsinh", "arccosh", "arctanh", "abs"}

operators == {"++", "**", "+", "-", "*", "/", "%", "^", "log", "rand",
              "max", "min", "ans"} \cup UnaryNames

Result(err, stk, value) ==
    IF err = "" /\ ~Small(value)
    THEN [err |-> "unmodelled", stack |-> stk, value |-> Num(0)]
    ELSE [err |-> err, stack |-> stk, value |-> value]

\* stacksum with the loop stopping one short (while len(stack) > 1)
RECURSIVE stacksumKeepsLast(_, _)
stacksumKeepsLast(stk, acc) ==
    IF Len(stk) <= 1 THEN Result("", stk, acc)
    ELSE IF ~Small(acc) THEN Result("unmodelled", stk, acc)
    ELSE stacksumKeepsLast(Pop(stk), RAdd(acc, Top(stk)))

\* acc = 0; while stack: acc += stack.pop()
RECURSIVE stacksum(_, _)
stacksum(stk, acc) ==
    IF stk = <<>> THEN Result("", stk, acc)
    ELSE IF ~Small(acc) THEN Result("unmodelled", stk, acc)
    ELSE stacksum(Pop(stk), RAdd(acc, Top(stk)))

\* acc = 1; while stack: acc *= stack.pop()
RECURSIVE stackproduct(_, _)
stackproduct(stk, acc) ==
    IF stk = <<>> THEN Result("", stk, acc)
    ELSE IF ~Small(acc) THEN Result("unmodelled", stk, acc)
    ELSE stackproduct(Pop(stk), RMul(acc, Top(stk)))

\* Binary with the operands taken the other way round: f(stack.pop(), stack.pop())
BinarySwapped(name, stk) ==
    IF Len(stk) < 2 THEN Result("IndexError", stk, Num(0))
    ELSE LET left == stk[Len(stk)]
             right == stk[Len(stk) - 1]
             rest == SubSeq(stk, 1, Len(stk) - 2)
         IN CASE name = "+" -> Result("", rest, RAdd(left, right))
              [] name = "-" -> Result("", rest, RSub(left, right))
              [] name = "*" -> Result("", rest, RMul(left, right))
              [] name = "/" -> IF IsZero(right)
                               THEN Result("ZeroDivisionError", rest, Num(0))
                               ELSE Result("", rest, RDiv(left, right))
              [] name = "%" -> IF IsZero(right)
                               THEN Result("ZeroDivisionError", rest, Num(0))
                               ELSE Result("", rest, RMod(left, right))
              [] name = "^" -> IF ~IsInt(right)
                               THEN Result("unmodelled", rest, Num(0))
                               ELSE IF IsZero(left) /\ right[1] < 0
                               THEN Result("ZeroDivisionError", rest, Num(0))
                               ELSE Result("", rest, RPow(left, right))
              [] name = "log" -> IF ~RLess(Num(0), left) \/ ~RLess(Num(0), right)
                                 THEN Result("ValueError", rest, Num(0))
                                 ELSE IF right = Num(1)
                                 THEN Result("ZeroDivisionError", rest, Num(0))
                                 ELSE IF left = Num(1) THEN Result("", rest, Num(0))
                                 ELSE Result("unmodelled", rest, Num(0))

\* f(stack.pop(-2), stack.pop()): pop(-2) raises on a list shorter than two
Binary(name, stk) ==
    IF Len(stk) < 2 THEN Result("IndexError", stk, Num(0))
    ELSE LET left == stk[Len(stk) - 1]
             right == stk[Len(stk)]
             rest == SubSeq(stk, 1, Len(stk) - 2)
         IN CASE name = "+" -> Result("", rest, RAdd(left, right))
              [] name = "-" -> Result("", rest, RSub(left, right))
              [] name = "*" -> Result("", rest, RMul(left, right))
              [] name = "/" -> IF IsZero(right)
                               THEN Result("ZeroDivisionError", rest, Num(0))
                               ELSE Result("", rest, RDiv(left, right))
              [] name = "%" -> IF IsZero(right)
                               THEN Result("ZeroDivisionError", rest, Num(0))
                               ELSE Result("", rest, RMod(left, right))
              [] name = "^" -> IF ~IsInt(right)
                               THEN Result("unmodelled", rest, Num(0))
                               ELSE IF IsZero(left) /\ right[1] < 0
                               THEN Result("ZeroDivisionError", rest, Num(0))
                               ELSE Result("", rest, RPow(left, right))
              \* math.log(x, base) is log(x) / log(base)
              [] name = "log" -> IF ~RLess(Num(0), left) \/ ~RLess(Num(0), right)
                                 THEN Result("ValueError", rest, Num(0))
                                 ELSE IF right = Num(1)
                                 THEN Result("ZeroDivisionError", rest, Num(0))
                                 ELSE IF left = Num(1) THEN Result("", rest, Num(0))
                                 ELSE Result("unmodelled", rest, Num(0))

\* f(stack.pop(), stack.pop()): the first pop is done before the second raises
TopTwo(name, stk) ==
    IF Len(stk) = 0 THEN Result("IndexError", stk, Num(0))
    ELSE IF Len(stk) = 1 THEN Result("IndexError", Pop(stk), Num(0))
    ELSE LET first == stk[Len(stk)]
             second == stk[Len(stk) - 1]
             rest == SubSeq(stk, 1, Len(stk) - 2)
         IN IF name = "max"
            THEN Result("", rest, IF RLess(first, second) THEN second ELSE first)
            ELSE Result("", rest, IF RLess(second, first) THEN second ELSE first)

\* the math functions of one argument: the arguments outside the domain
\* (ValueError, "math domain error"), and the arguments whose value is exact
DomainError(name, x) ==
    \/ name \in {"ln", "log2", "log10"} /\ ~RLess(Num(0), x)
    \/ name = "sqrt" /\ RLess(x, Num(0))
    \/ name \in {"arcsin", "arccos"} /\ (RLess(x, Num(-1)) \/ RLess(Num(1), x))
    \/ name = "arctanh" /\ ~(RLess(Num(-1), x) /\ RLess(x, Num(1)))
    \/ name = "arccosh" /\ RLess(x, Num(1))

ZeroAtZero == {"sqrt", "sin", "tan", "sinh", "tanh", "arcsin", "arctan", "arcsinh", "arctanh"}
OneAtZero == {"exp", "cos", "cosh"}
ZeroAtOne == {"ln", "log2", "log10", "arccos", "arccosh"}

\* f(stack.pop())
Unary(name, stk) ==
    IF stk = <<>> THEN Result("IndexError", stk, Num(0))
    ELSE LET x == Top(stk)
             rest == Pop(stk)
         IN IF name = "abs" THEN Result("", rest, <<Abs(x[1]), x[2]>>)
            ELSE IF DomainError(name, x) THEN Result("ValueError", rest, Num(0))
            ELSE IF name \in ZeroAtZero /\ x = Num(0) THEN Result("", rest, Num(0))
            ELSE IF name \in OneAtZero /\ x = Num(0) THEN Result("", rest, Num(1))
            ELSE IF name \in ZeroAtOne /\ x = Num(1) THEN Result("", rest, Num(0))
            ELSE IF name = "sqrt" /\ x = Num(1) THEN Result("", rest, Num(1))
            ELSE Result("unmodelled", rest, Num(0))

\* Handler with ans read from the class (RPNCalculator.ans, always 0), not self
HandlerClassAns(name, stk, register) ==
    CASE name = "++" -> stacksum(stk, Num(0))
      [] name = "**" -> stackproduct(stk, Num(1))
      [] name \in {"+", "-", "*", "/", "%", "^", "log"} -> Binary(name, stk)
      [] name \in {"max", "min"} -> TopTwo(name, stk)
      [] name \in UnaryNames -> Unary(name, stk)
      [] name = "ans" -> Result("", stk, Num(0))

\* operators[tok](stack) for every name but rand
Handler(name, stk, register) ==
    CASE name = "++" -> stacksum(stk, Num(0))
      [] name = "**" -> stackproduct(stk, Num(1))
      [] name \in {"+", "-", "*", "/", "%", "^", "log"} -> Binary(name, stk)
      [] name \in {"max", "min"} -> TopTwo(name, stk)
      [] name \in UnaryNames -> Unary(name, stk)
      [] name = "ans" -> Result("", stk, register)

\* the values random.random() is taken to return
RandomValues == {Num(0), Rat(1, 2)}

(***************************************************************************)
(* Inputs.                                                                 *)
(***************************************************************************)
LitValues == {2, 3, 4}
LitChars == {"2", "3", "4"}
OpChars == {"+", "-", "/", "*", "^"}

SeqsUpTo(S, n) == UNION {[1..k -> S] : k \in 0..n}

\* token sequences handed to shunting_yard
InfixTokens ==
    {<<Lit(a), Op(o1), Lit(b), Op(o2), Lit(c)>> :
        a \in LitValues, b \in LitValues, c \in LitValues, o1 \in OpChars, o2 \in OpChars}
ParenTokens ==
    {<<LParen, Lit(a), Op(o1), Lit(b), RParen, Op(o2), Lit(c)>> :
        a \in {3}, b \in LitValues, c \in LitValues, o1 \in OpChars, o2 \in OpChars}
UnbalancedTokens ==
    {<<LParen, Lit(a), Op(o), Lit(b)>> : a \in {3}, b \in {4}, o \in OpChars}
    \cup {<<Lit(a), Op(o), Lit(b), RParen>> : a \in {3}, b \in {4}, o \in OpChars}
    \cup {<<Fn("max"), LParen, Lit(2), Separator, Lit(3), RParen>>,
          <<Fn("max"), LParen, Lit(2), Separator, Lit(3)>>,
          <<LParen, LParen, Lit(2), RParen>>, <<LParen, Lit(2), RParen, RParen>>}
LiteralTokens == SeqsUpTo({Lit(a) : a \in LitValues}, MaxLits)
TokenAlphabet == {Lit(2), Op("+"), Op("*"), Op("^"), Fn("foo"), Const("pi"),
                  LParen, RParen, Separator}
ShortTokens == SeqsUpTo(TokenAlphabet, 3)
CallTokens ==
    {<<Fn("max"), LParen, Lit(2), Op(o1), Lit(3), Op(o2), Lit(4), Separator, Lit(3), RParen>> :
        o1 \in {"*", "^"}, o2 \in {"+", "*"}}
TokenInputs == InfixTokens \cup ParenTokens \cup UnbalancedTokens
               \cup LiteralTokens \cup ShortTokens \cup CallTokens

\* texts handed to expression.main
UnknownNames == {<<"f", "o", "o">>, <<"x">>, <<"p", "e">>, <<"s", "i", "n", "e">>}
InfixTexts == {<<a, o1, "4", o2, "2">> : a \in {"2", "3"}, o1 \in OpChars, o2 \in OpChars}
ParenTexts == {<<l, "3", o1, "4", r, o2, "2">> :
                  l \in {"(", "["}, r \in {")", "]"}, o1 \in {"+", "*"}, o2 \in {"*", "^"}}
CallArgs == {<<"1">>, <<"-", "2">>, <<"1", ".", "5">>}
CallTexts == {n \o <<"(">> \o a \o <<")">> : n \in UnknownNames, a \in CallArgs}
OtherTexts == {<<"(", "3", "+", "4">>, <<"3", "+", "4", ")">>, <<"3", " ", "-", " ", "4">>,
               <<"2", " ", "3", " ", "4">>, <<"1", ".", "5", " ", "-", "2">>,
               <<"p", "i">>, <<"e">>, <<"3", "$">>, <<>>, <<"2", "^", "3", "^", "2">>,
               <<"s", "i", "n", "(", "0", ")">>, <<"a", "n", "s">>}
\* the keys of the registry, spelled out, and each as a text between blanks
RegistryNames ==
    {<<"+", "+">>, <<"*", "*">>, <<"+">>, <<"-">>, <<"*">>, <<"/">>, <<"%">>, <<"^">>,
     <<"!">>, <<"l", "n">>, <<"l", "o", "g">>, <<"l", "o", "g", "2">>,
     <<"l", "o", "g", "1", "0">>, <<"r", "a", "n", "d">>, <<"s", "q", "r", "t">>,
     <<"e", "x", "p">>, <<"s", "i", "n">>, <<"c", "o", "s">>, <<"t", "a", "n">>,
     <<"s", "i", "n", "h">>, <<"c", "o", "s", "h">>, <<"t", "a", "n", "h">>,
     <<"a", "r", "c", "s", "i", "n">>, <<"a", "r", "c", "c", "o", "s">>,
     <<"a", "r", "c", "t", "a", "n">>, <<"a", "r", "c", "s", "i", "n", "h">>,
     <<"a", "r", "c", "c", "o", "s", "h">>, <<"a", "r", "c", "t", "a", "n", "h">>,
     <<"m", "a", "x">>, <<"m", "i", "n">>, <<"a", "b", "s">>, <<"a", "n", "s">>}
RegistryTexts == {<<" ">> \o n \o <<" ">> : n \in RegistryNames}
ExprTexts == InfixTexts \cup ParenTexts \cup CallTexts \cup OtherTexts \cup RegistryTexts

\* postfix sequences handed to RPNCalculator.eval by a caller
EvalExprs ==
    {<<>>, <<Lit(2)>>, <<Lit(2), Lit(3)>>, <<Lit(2), Lit(3), Lit(4)>>,
     <<Op("++")>>, <<Op("**")>>, <<Lit(2), Lit(3), Lit(4), Op("++")>>,
     <<Lit(2), Lit(3), Lit(4), Op("**")>>, <<Lit(3), Op("++")>>,
     <<Lit(2), Lit(3), Op("+")>>, <<Lit(2), Lit(3), Op("-")>>, <<Lit(3), Lit(2), Op("/")>>,
     <<Lit(2), Lit(3), Op("^")>>, <<Lit(3), Op("%")>>, <<Op("+")>>,
     <<Lit(1), Lit(0), Op("/")>>, <<Lit(1), Fn("foo")>>, <<Fn("ans")>>,
     <<Lit(4), Fn("ans")>>, <<Fn("ans"), Op("+")>>, <<Fn("rand")>>,
     <<Lit(2), Lit(3), Separator, Fn("max")>>, <<Fn("min")>>, <<Lit(-3), Fn("abs")>>,
     <<Const("e")>>, <<Const("pi"), Lit(2), Op("*")>>, <<Const("x")>>,
     <<Lit(2), LParen>>, <<Lit(2), Const("x")>>, <<Lit(4), Lit(3), Op("%")>>,
     <<Lit(2), Lit(3), Op("*")>>, <<Lit(2), Fn("max")>>, <<Lit(2), Fn("log")>>,
     <<Lit(0), Fn("ln")>>}

\* command lines typed at the interactive prompt (pop, clear, quit and exit apart)
CommandTexts ==
    {<<"1", " ", "0", " ", "/">>, <<"1", " ", "f", "o", "o">>, <<"f", "o", "o">>,
     <<"2", " ", "3", " ", "+">>, <<"2", " ", "3">>, <<"4">>, <<"+">>, <<"*">>,
     <<"a", "n", "s">>, <<"r", "a", "n", "d">>, <<"5", " ", "$">>, <<"3", " ", "-">>,
     <<"2", " ", "(">>, <<>>, <<"m", "a", "x">>, <<"0", " ", "%">>,
     <<"1", ".", "2", ".", "3">>, <<"0", " ", "l", "n">>}

(***************************************************************************)
(* State.                                                                  *)
(***************************************************************************)
\* One entry of history, the record of a finished command or call: the line
\* typed (cmd), whether eval was called (eval) and with which sequence (expr),
\* whether it was given the caller's list (supplied), the caller's list before
\* and after, how it ended (outcome: "returned", "done" for pop and clear, or
\* the exception), eval's list and the register at the end (stack, ans), and
\* whether an operator or function was applied (applied).
Entry(cmd, called, expr, supplied, bef, outcome, stk, aft, app, register) ==
    [cmd |-> cmd, eval |-> called, expr |-> expr, supplied |-> supplied,
     before |-> bef, outcome |-> outcome, stack |-> stk, after |-> aft,
     applied |-> app, ans |-> register]

Init ==
    /\ prog \in {"expression", "interactive", "library"}
    /\ error = ""
    /\ pos = 1
    /\ output = <<>>
    /\ opstack = <<>>
    /\ rpn = <<>>
    /\ idx = 1
    /\ stack = <<>>
    /\ ans = Num(0)
    /\ held = <<>>
    /\ shared = FALSE
    /\ before = <<>>
    /\ pre = <<>>
    /\ preAns = Num(0)
    /\ applied = FALSE
    /\ history = <<>>
    /\ \/ prog = "expression" /\ pc = "tokenize" /\ text \in ExprTexts /\ tokens = <<>>
       \/ prog = "expression" /\ pc = "reorder" /\ text = <<>> /\ tokens \in TokenInputs
       \/ prog # "expression" /\ pc = "prompt" /\ text = <<>> /\ tokens = <<>>

(***************************************************************************)
(* expression.main: tokenize, then shunting_yard token by token.           *)
(***************************************************************************)
SYVars == <<pos, output, opstack>>
EvalVars == <<rpn, idx, stack, ans, held, shared, before, pre, preAns, applied, history>>

\* an exception leaves expression.main, which handles none; pc keeps where
Uncaught(err) == pc' = pc \o " raised" /\ error' = err

Tokenize ==
    /\ pc = "tokenize"
    /\ LET r == tokenize(text)
       IN IF r.err # ""
          THEN Uncaught(r.err) /\ UNCHANGED tokens
          ELSE tokens' = r.tokens /\ pc' = "reorder" /\ UNCHANGED error
    /\ UNCHANGED <<prog, text, SYVars, EvalVars>>

Reordering == pc = "reorder" /\ pos <= Len(tokens)
token == tokens[pos]

SYStep(err, stk, out) ==
    /\ opstack' = stk
    /\ output' = out
    /\ IF err = "" THEN pos' = pos + 1 /\ UNCHANGED <<pc, error>>
       ELSE Uncaught(err) /\ UNCHANGED pos
    /\ UNCHANGED <<prog, text, tokens, EvalVars>>

\* SYNumber with the token pushed on the operator stack, as a Function is
SYNumberOntoStack ==
    /\ Reordering
    /\ token.type \in {"Literal", "Constant"}
    /\ SYStep("", Append(opstack, token), output)

SYNumber ==
    /\ Reordering
    /\ token.type \in {"Literal", "Constant"}
    /\ SYStep("", opstack, Append(output, token))

SYFunction ==
    /\ Reordering
    /\ token.type = "Function"
    /\ SYStep("", Append(opstack, token), output)

SYSeparator ==
    /\ Reordering
    /\ token.type = "Separator"
    /\ LET r == PopToLParen(opstack, output)
       IN SYStep(IF r.stack = <<>> THEN "SyntaxError: mismatched parentheses" ELSE "",
                 r.stack, r.output)

SYOperator ==
    /\ Reordering
    /\ token.type = "Operator"
    /\ LET r == OperatorLoop(token, opstack, output)
       IN SYStep(r.err, r.stack, r.output)

\* SYLParen with the bracket added to the output, as the comment of line 106 says
SYLParenOntoOutput ==
    /\ Reordering
    /\ token.type = "LParen"
    /\ SYStep("", opstack, Append(output, token))

SYLParen ==
    /\ Reordering
    /\ token.type = "LParen"
    /\ SYStep("", Append(opstack, token), output)

\* stack[-1] is read without a test that the loop left anything on the stack
SYRParen ==
    /\ Reordering
    /\ token.type = "RParen"
    /\ LET r == PopToLParen(opstack, output)
       IN IF r.stack = <<>> THEN SYStep("IndexError", r.stack, r.output)
          ELSE IF Top(r.stack).type # "LParen"
          THEN SYStep("SyntaxError: mismatched parentheses", r.stack, r.output)
          ELSE LET s1 == Pop(r.stack)
               IN IF s1 # <<>> /\ Top(s1).type = "Function"
                  THEN SYStep("", Pop(s1), Append(r.output, Top(s1)))
                  ELSE SYStep("", s1, r.output)

\* the closing loop, then main's rpn.RPNCalculator().eval(rpnexpr)
SYReturn ==
    /\ pc = "reorder"
    /\ pos > Len(tokens)
    /\ LET r == Drain(opstack, output)
       IN /\ opstack' = r.stack
          /\ output' = r.output
          /\ IF r.err # ""
             THEN Uncaught(r.err) /\ UNCHANGED EvalVars
             ELSE /\ pc' = "eval"
                  /\ rpn' = r.output
                  /\ idx' = 1
                  /\ stack' = <<>>
                  /\ ans' = Num(0)
                  /\ shared' = FALSE
                  /\ pre' = <<>>
                  /\ preAns' = Num(0)
                  /\ applied' = FALSE
                  /\ UNCHANGED <<error, held, before, history>>
    /\ UNCHANGED <<prog, text, tokens, pos>>

(***************************************************************************)
(* RPNCalculator.eval, token by token.  stack is the list eval works on;   *)
(* held is the caller's list, and shared says they are the same object,    *)
(* so that every change eval makes to the list is a change to held.        *)
(***************************************************************************)
\* the conditions interactive() prints and goes on from
Printed == {"SyntaxError: unexpected character", "SyntaxError: unknown operator/function",
            "SyntaxError: unexpected token", "IndexError", "ZeroDivisionError"}

\* the call ends: by return, or by an exception that reaches the caller
Finish(outcome, stk, hld, register, app) ==
    /\ error' = IF outcome = "returned" THEN "" ELSE outcome
    /\ IF prog = "expression"
       THEN /\ pc' = IF outcome = "returned" THEN "returned" ELSE "eval raised"
            /\ UNCHANGED history
       ELSE /\ history' = Append(history, Entry(text, TRUE, rpn, shared, before,
                                                outcome, stk, hld, app, register))
            /\ pc' = IF prog = "interactive" /\ outcome \notin Printed \cup {"returned", "Warning"}
                     THEN "crashed" ELSE "prompt"

EvalStep(err, stk, register, app) ==
    /\ pre' = stack
    /\ preAns' = ans
    /\ stack' = stk
    /\ ans' = register
    /\ applied' = app
    /\ held' = IF shared THEN stk ELSE held
    /\ IF err = ""
       THEN idx' = idx + 1 /\ UNCHANGED <<pc, error, history>>
       ELSE idx' = idx /\ Finish(err, stk, IF shared THEN stk ELSE held, register, app)
    /\ UNCHANGED <<prog, text, tokens, SYVars, rpn, shared, before>>

Evaluating == pc = "eval" /\ idx <= Len(rpn)
tok == rpn[idx]

\* EvalLiteral with the pushed value written to the register as well
EvalLiteralSetsAns ==
    /\ Evaluating
    /\ tok.type = "Literal"
    /\ EvalStep("", Append(stack, tok.num), tok.num, applied)

EvalLiteral ==
    /\ Evaluating
    /\ tok.type = "Literal"
    /\ EvalStep("", Append(stack, tok.num), ans, applied)

\* a Constant of any other name falls through both tests and pushes nothing
EvalConstant ==
    /\ Evaluating
    /\ tok.type = "Constant"
    /\ EvalStep("", IF tok.value = "e" THEN Append(stack, MathE)
                    ELSE IF tok.value = "pi" THEN Append(stack, MathPi)
                    ELSE stack,
                ans, applied)

\* EvalOperation with an unknown name passed over instead of raising
EvalOperationSkipsUnknown ==
    /\ Evaluating
    /\ tok.type \in {"Operator", "Function"}
    /\ tok.value # "rand"
    /\ IF tok.value \notin operators
       THEN EvalStep("", stack, ans, applied)
       ELSE LET r == Handler(tok.value, stack, ans)
            IN /\ r.err # "unmodelled"
               /\ IF r.err # "" THEN EvalStep(r.err, r.stack, ans, applied)
                  ELSE EvalStep("", Append(r.stack, r.value), r.value, TRUE)

EvalOperation ==
    /\ Evaluating
    /\ tok.type \in {"Operator", "Function"}
    /\ tok.value # "rand"
    /\ IF tok.value \notin operators
       THEN EvalStep("SyntaxError: unknown operator/function", stack, ans, applied)
       ELSE LET r == Handler(tok.value, stack, ans)
            IN /\ r.err # "unmodelled"
               /\ IF r.err # "" THEN EvalStep(r.err, r.stack, ans, applied)
                  ELSE EvalStep("", Append(r.stack, r.value), r.value, TRUE)

EvalRand ==
    /\ Evaluating
    /\ tok.type \in {"Operator", "Function"}
    /\ tok.value = "rand"
    /\ \E v \in RandomValues : EvalStep("", Append(stack, v), v, TRUE)

EvalSeparator ==
    /\ Evaluating
    /\ tok.type = "Separator"
    /\ EvalStep("", stack, ans, applied)

EvalUnexpected ==
    /\ Evaluating
    /\ tok.type \notin {"Literal", "Constant", "Operator", "Function", "Separator"}
    /\ EvalStep("SyntaxError: unexpected token", stack, ans, applied)

\* after the loop: the list is returned only when it holds exactly one value
EvalReturn ==
    /\ pc = "eval"
    /\ idx > Len(rpn)
    /\ Finish(IF Len(stack) # 1 THEN "Warning" ELSE "returned", stack, held, ans, applied)
    /\ UNCHANGED <<prog, text, tokens, SYVars, rpn, idx, stack, ans, held, shared,
                   before, pre, preAns, applied>>

(***************************************************************************)
(* The callers of eval: a library caller, and interactive().               *)
(***************************************************************************)
\* FreshStack as a default list shared between calls (def eval(..., stack=[]))
LeftoverStack == stack

\* the stack argument omitted: if stack is None: stack = []
FreshStack == <<>>

StartEval(cmd, expr, supplied) ==
    /\ pc' = "eval"
    /\ error' = ""
    /\ text' = cmd
    /\ rpn' = expr
    /\ idx' = 1
    /\ stack' = IF supplied THEN held ELSE FreshStack
    /\ shared' = supplied
    /\ before' = held
    /\ pre' = IF supplied THEN held ELSE FreshStack
    /\ preAns' = ans
    /\ applied' = FALSE
    /\ UNCHANGED <<prog, tokens, SYVars, ans, held, history>>

AtPrompt(p) == prog = p /\ pc = "prompt" /\ Len(history) < MaxCalls

LibraryCall ==
    /\ AtPrompt("library")
    /\ \E e \in EvalExprs, supplied \in BOOLEAN : StartEval(<<>>, e, supplied)

\* a command that ends without a call of eval
NoCall(cmd, outcome, hld) ==
    /\ text' = cmd
    /\ error' = IF outcome = "done" THEN "" ELSE outcome
    /\ held' = hld
    /\ history' = Append(history, Entry(cmd, FALSE, <<>>, TRUE, held, outcome, hld, hld,
                                        FALSE, ans))
    /\ pc' = IF outcome \in Printed \cup {"done"} THEN "prompt" ELSE "crashed"
    /\ rpn' = <<>>
    /\ idx' = 1
    /\ stack' = <<>>
    /\ pre' = <<>>
    /\ UNCHANGED <<prog, tokens, SYVars, ans, shared, before, preAns, applied>>

\* Command with the stack argument left out: calc.eval(expression.tokenize(expr))
CommandOmitsStack ==
    /\ AtPrompt("interactive")
    /\ \E cmd \in CommandTexts :
          LET r == tokenize(cmd)
          IN IF r.err # "" THEN NoCall(cmd, r.err, held)
             ELSE StartEval(cmd, r.tokens, FALSE)

\* stack = calc.eval(expression.tokenize(expr), stack)
Command ==
    /\ AtPrompt("interactive")
    /\ \E cmd \in CommandTexts :
          LET r == tokenize(cmd)
          IN IF r.err # "" THEN NoCall(cmd, r.err, held)
             ELSE StartEval(cmd, r.tokens, TRUE)

CommandPop ==
    /\ AtPrompt("interactive")
    /\ IF held = <<>> THEN NoCall(<<"p", "o", "p">>, "IndexError", held)
       ELSE NoCall(<<"p", "o", "p">>, "done", Pop(held))

CommandClear ==
    /\ AtPrompt("interactive")
    /\ NoCall(<<"c", "l", "e", "a", "r">>, "done", <<>>)

\* quit, exit, end of input or an interrupt
CommandQuit ==
    /\ prog = "interactive"
    /\ pc = "prompt"
    /\ pc' = "exited"
    /\ UNCHANGED <<prog, error, text, tokens, SYVars, EvalVars>>

Next ==
    \/ Tokenize
    \/ SYNumber
    \/ SYFunction
    \/ SYSeparator
    \/ SYOperator
    \/ SYLParen
    \/ SYRParen
    \/ SYReturn
    \/ EvalLiteral
    \/ EvalConstant
    \/ EvalOperation
    \/ EvalRand
    \/ EvalSeparator
    \/ EvalUnexpected
    \/ EvalReturn
    \/ LibraryCall
    \/ Command
    \/ CommandPop
    \/ CommandClear
    \/ CommandQuit

Spec == Init /\ [][Next]_vars

(***************************************************************************)
(* Properties.                                                             *)
(***************************************************************************)
\* shunting_yard has returned (eval is running or has ended)
ReorderDone == prog = "expression" /\ pc \in {"eval", "returned", "eval raised"}
Mismatched == "SyntaxError: mismatched parentheses"
UnknownName == "SyntaxError: unknown operator/function"

\* [a, op1, b, op2, c] with op2 binding tighter than op1
C1_Case ==
    /\ prog = "expression"
    /\ tokens \in InfixTokens
    /\ OPS[tokens[4].value].prec > OPS[tokens[2].value].prec

\* C1: shunting_yard turns [a, op1, b, op2, c] with prec(op2) > prec(op1) into
\* [a, b, c, op2, op1]; the text 3+4*2 tokenizes to 3 + 4 * 2, is reordered to
\* 3 4 2 * + and evaluates on a fresh stack to the single value 11.
C1_Precedence ==
    /\ C1_Case =>
          /\ pc # "reorder raised"
          /\ ReorderDone =>
                rpn = <<tokens[1], tokens[3], tokens[5], tokens[4], tokens[2]>>
    /\ (prog = "expression" /\ text = <<"3", "+", "4", "*", "2">>) =>
          /\ pc \notin {"tokenize raised", "reorder raised", "eval raised"}
          /\ pc # "tokenize" => tokens = <<Lit(3), Op("+"), Lit(4), Op("*"), Lit(2)>>
          /\ ReorderDone => rpn = <<Lit(3), Lit(4), Lit(2), Op("*"), Op("+")>>
          /\ pc = "returned" => stack = <<Num(11)>>

C1_Witness ==
    /\ text = <<"3", "+", "4", "*", "2">>
    /\ pc = "returned"
    /\ rpn = <<Lit(3), Lit(4), Lit(2), Op("*"), Op("+")>>
    /\ stack = <<Num(11)>>

\* C2: shunting_yard turns [a, ^, b, ^, c] into [a, b, c, ^, ^], and the text
\* 2^3^2 evaluates to the single value 512.
C2_RightAssociative ==
    /\ (/\ prog = "expression"
        /\ tokens \in InfixTokens
        /\ tokens[2].value = "^"
        /\ tokens[4].value = "^") =>
          /\ pc # "reorder raised"
          /\ ReorderDone =>
                rpn = <<tokens[1], tokens[3], tokens[5], tokens[4], tokens[2]>>
    /\ (prog = "expression" /\ text = <<"2", "^", "3", "^", "2">>) =>
          /\ pc \notin {"tokenize raised", "reorder raised", "eval raised"}
          /\ pc = "returned" => stack = <<Num(512)>>

\* brackets opened less brackets closed among the first k tokens
BracketDepth(toks, k) ==
    Cardinality({i \in 1..k : toks[i].type = "LParen"})
    - Cardinality({i \in 1..k : toks[i].type = "RParen"})

Unbalanced(toks) ==
    \/ \E k \in 1..Len(toks) : BracketDepth(toks, k) < 0
    \/ BracketDepth(toks, Len(toks)) > 0

\* C3: on a token sequence with unbalanced brackets shunting_yard fails, and
\* with the mismatched-parentheses condition.
C3_Mismatch ==
    (/\ prog = "expression"
     /\ pc \in {"reorder raised", "eval", "returned", "eval raised"}
     /\ Unbalanced(tokens)) =>
        pc = "reorder raised" /\ error = Mismatched

\* C4: shunting_yard turns [(, a, op1, b, ), op2, c] with prec(op1) < prec(op2)
\* into [a, b, op1, c, op2], and the text (3+4)*2 evaluates to the single
\* value 14.
C4_Parenthesized ==
    /\ (/\ prog = "expression"
        /\ tokens \in ParenTokens
        /\ OPS[tokens[3].value].prec < OPS[tokens[6].value].prec) =>
          /\ pc # "reorder raised"
          /\ ReorderDone =>
                rpn = <<tokens[2], tokens[4], tokens[3], tokens[7], tokens[6]>>
    /\ (prog = "expression" /\ text = <<"(", "3", "+", "4", ")", "*", "2">>) =>
          /\ pc \notin {"tokenize raised", "reorder raised", "eval raised"}
          /\ pc = "returned" => stack = <<Num(14)>>

C5_Names == {[chars |-> <<"f", "o", "o">>, name |-> "foo"],
             [chars |-> <<"x">>, name |-> "x"],
             [chars |-> <<"p", "e">>, name |-> "pe"],
             [chars |-> <<"s", "i", "n", "e">>, name |-> "sine"]}
C5_Args == {[chars |-> <<"1">>, value |-> Num(1)],
            [chars |-> <<"-", "2">>, value |-> Num(-2)],
            [chars |-> <<"1", ".", "5">>, value |-> Rat(3, 2)]}

\* C5: for a name that is neither a constant nor in the registry, the text
\* name(arg) tokenizes to name ( arg ), is reordered to [arg, name], and eval
\* fails with the unknown operator/function condition at the Function token,
\* the argument being on the stack.
C5_UnknownName ==
    \A n \in C5_Names, a \in C5_Args :
        (prog = "expression" /\ text = n.chars \o <<"(">> \o a.chars \o <<")">>) =>
            /\ n.name \notin operators \cup {"e", "pi"}
            /\ pc \notin {"tokenize raised", "reorder raised", "returned"}
            /\ pc # "tokenize" =>
                  tokens = <<Fn(n.name), LParen, Literal(a.value), RParen>>
            /\ ReorderDone => rpn = <<Literal(a.value), Fn(n.name)>>
            /\ pc = "eval" => idx <= 2 /\ (idx = 2 => stack = <<a.value>>)
            /\ pc = "eval raised" =>
                  error = UnknownName /\ idx = 2 /\ stack = <<a.value>>

C5_Witness ==
    /\ text = <<"f", "o", "o", "(", "1", ")">>
    /\ pc = "eval raised"
    /\ error = UnknownName
    /\ stack = <<Num(1)>>

\* the last token eval processed was an application of name, and it succeeded:
\* pre and preAns are the list and the register before it
Applied(name) ==
    /\ idx > 1
    /\ error \in {"", "Warning"}
    /\ rpn[idx - 1].type \in {"Operator", "Function"}
    /\ rpn[idx - 1].value = name

RECURSIVE C6_Sum(_)
C6_Sum(s) == IF s = <<>> THEN Num(0) ELSE RAdd(s[1], C6_Sum(Tail(s)))

RECURSIVE C6_Product(_)
C6_Product(s) == IF s = <<>> THEN Num(1) ELSE RMul(s[1], C6_Product(Tail(s)))

\* C6: after ++ (resp. **) is applied to a list of n >= 0 values, values
\* carried over from earlier calls included, the list holds exactly one value,
\* their sum (resp. product); 0 (resp. 1) for n = 0.
C6_Reducers ==
    /\ Applied("++") => stack = <<C6_Sum(pre)>>
    /\ Applied("**") => stack = <<C6_Product(pre)>>

C6_Witness ==
    /\ Applied("++")
    /\ shared
    /\ before # <<>>
    /\ Len(pre) > Len(before)
    /\ stack = <<C6_Sum(pre)>>
    /\ held = stack

\* the last finished command, and the last finished call of eval
LastCommand == history[Len(history)]
LastCall ==
    history[CHOOSE i \in 1..Len(history) :
                history[i].eval /\ \A j \in (i + 1)..Len(history) : ~history[j].eval]

\* an ans token has just been applied, as the first application of a call that
\* follows a call which returned a single result
C7_Case ==
    /\ prog # "expression"
    /\ pc = "eval"
    /\ Applied("ans")
    /\ \A i \in 1..(idx - 2) : rpn[i].type \notin {"Operator", "Function"}
    /\ \E i \in 1..Len(history) : history[i].eval
    /\ LastCall.outcome = "returned"

\* C7 as stated: after any expression that returned the single result r, ans
\* in the next call pushes r on top of whatever the list holds.
C7_RegisterPersistence ==
    C7_Case => stack = Append(pre, LastCall.stack[1])

\* C7 amended: the same, for an expression that applied at least one operator
\* or function.
C7_RegisterAfterOperation ==
    (C7_Case /\ LastCall.applied) =>
        stack = Append(pre, LastCall.stack[1]) /\ ans = LastCall.stack[1]

C7_Witness ==
    /\ C7_Case
    /\ LastCall.applied
    /\ LastCall.stack[1] # Num(0)
    /\ pre # <<>>
    /\ stack = Append(pre, LastCall.stack[1])

C8_Pure(e) ==
    \A i \in 1..Len(e) :
        ~(e[i].type \in {"Operator", "Function"} /\ e[i].value \in {"rand", "ans"})

\* a call of eval with the stack argument omitted, or given an empty list
C8_Fresh(h) == h.eval /\ (~h.supplied \/ h.before = <<>>)

\* C8: two evaluations of one sequence without rand and ans on the same
\* calculator, each with the stack argument omitted or an empty list supplied,
\* end the same way with the same list; a call with the stack argument omitted
\* starts from an empty list.
C8_Idempotent ==
    /\ \A i, j \in 1..Len(history) :
          (/\ i < j
           /\ C8_Fresh(history[i])
           /\ C8_Fresh(history[j])
           /\ history[i].expr = history[j].expr
           /\ C8_Pure(history[i].expr)) =>
              /\ history[i].outcome = history[j].outcome
              /\ history[i].stack = history[j].stack
    /\ (pc = "eval" /\ ~shared /\ idx = 1) => stack = <<>>

C8_Witness ==
    /\ Len(history) >= 2
    /\ ~history[1].supplied
    /\ ~history[2].supplied
    /\ history[1].expr = history[2].expr
    /\ C8_Pure(history[1].expr)
    /\ history[1].applied
    /\ history[1].ans # Num(0)
    /\ history[2].outcome = "returned"
    /\ history[2].stack = history[1].stack

\* the tokens handed to shunting_yard are n >= 1 Literal tokens
C9_Case ==
    /\ prog = "expression"
    /\ pc # "tokenize"
    /\ Len(tokens) >= 1
    /\ \A i \in 1..Len(tokens) : tokens[i].type = "Literal"

C9_Values == [i \in 1..Len(tokens) |-> tokens[i].num]

C10_ErrorRecovery ==
    (prog = "interactive" /\ pc = "prompt" /\ Len(history) >= 1) =>
        (LastCommand.outcome \in Printed => held = LastCommand.before)

\* C11: an interactive session never crashes: whatever condition the
\* tokenization or the evaluation of a line raises, the loop reports it and
\* reads the next line; the session ends only on quit, exit, an interrupt or
\* the end of input.
C11_NeverCrashes ==
    prog = "interactive" =>
        /\ pc \in {"prompt", "eval", "exited"}
        /\ \A i \in 1..Len(history) :
              history[i].outcome \in Printed \cup {"returned", "Warning", "done"}

\* the last command of an interactive session ran every token and left the
\* list with a size other than one
C12_Case ==
    /\ prog = "interactive"
    /\ Len(history) >= 1
    /\ LastCommand.outcome = "Warning"

\* C12: an interactive command that completes every token and leaves the stack
\* with a size other than one is not reported as an error, and every value it
\* left is on the carried-over stack, in the same order, when the next command
\* is evaluated.
C12_Accumulation ==
    C12_Case =>
        /\ LastCommand.eval
        /\ Len(LastCommand.stack) # 1
        /\ LastCommand.outcome \notin Printed
        /\ pc \in {"prompt", "eval", "exited"}
        /\ pc \in {"prompt", "exited"} => held = LastCommand.stack
        /\ (pc = "eval" /\ idx = 1) => stack = LastCommand.stack /\ held = LastCommand.stack

C12_Witness ==
    /\ C12_Case
    /\ pc = "eval"
    /\ idx = 1
    /\ Len(rpn) >= 1
    /\ Len(stack) >= 2
    /\ stack[1] # stack[2]
    /\ stack = LastCommand.stack

\* C13: a number buffer holding only "-" is flushed as one Operator token for
\* subtraction and tokenize goes on without failure ("3 - 4", "-" alone); any
\* other buffer is flushed as one Literal token with the float value of its
\* text, or tokenize fails when the text is no float.
C13_MinusFlush ==
    /\ (prog = "expression" /\ text = <<"3", " ", "-", " ", "4">>) =>
          /\ pc # "tokenize raised"
          /\ pc # "tokenize" => tokens = <<Lit(3), Op("-"), Lit(4)>>
    /\ (prog = "expression" /\ text = <<" ", "-", " ">>) =>
          /\ pc # "tokenize raised"
          /\ pc # "tokenize" => tokens = <<Op("-")>>
    /\ (prog = "expression" /\ text = <<"1", ".", "5", " ", "-", "2">>) =>
          /\ pc # "tokenize raised"
          /\ pc # "tokenize" => tokens = <<Literal(Rat(3, 2)), Lit(-2)>>
    /\ (prog = "interactive" /\ text = <<"1", ".", "2", ".", "3">>) =>
          /\ LastCommand.cmd = text => LastCommand.outcome = "ValueError"

\* the entries at the top of stk that an Operator token has to pop: the run of
\* Operators binding at least as tightly (token left-associative) or strictly
\* tighter (token right-associative)
RECURSIVE C14_Run(_, _)
C14_Run(t, stk) ==
    IF /\ stk # <<>>
       /\ Top(stk).type = "Operator"
       /\ Top(stk).value \in DOMAIN OPS
       /\ IF OPS[t.value].assoc = "L"
          THEN OPS[Top(stk).value].prec >= OPS[t.value].prec
          ELSE OPS[Top(stk).value].prec > OPS[t.value].prec
    THEN 1 + C14_Run(t, Pop(stk))
    ELSE 0

\* C14: for every Operator token and every operator stack (empty, or topped by
\* an Operator, a Function or an LParen) the Operator branch pops into the
\* output exactly that run, pushes the token, and never fails; [a, -, b, -, c]
\* gives [a, b, -, c, -].
C14_OperatorStep ==
    /\ [][(SYOperator /\ token.value \in DOMAIN OPS) =>
              LET n == Len(opstack)
                  k == C14_Run(token, opstack)
              IN /\ pc' = "reorder"
                 /\ pos' = pos + 1
                 /\ opstack' = Append(SubSeq(opstack, 1, n - k), token)
                 /\ output' = output \o [i \in 1..k |-> opstack[n + 1 - i]]]_vars
    /\ []((/\ prog = "expression"
           /\ tokens \in InfixTokens
           /\ tokens[2].value = "-"
           /\ tokens[4].value = "-"
           /\ ReorderDone) =>
              rpn = <<tokens[1], tokens[3], tokens[2], tokens[5], tokens[4]>>)

C16_Names == {"+", "-", "*", "/", "%", "^"}

\* x OP y
C16_Value(name, x, y) ==
    CASE name = "+" -> RAdd(x, y)
      [] name = "-" -> RSub(x, y)
      [] name = "*" -> RMul(x, y)
      [] name = "/" -> RDiv(x, y)
      [] name = "%" -> RMod(x, y)
      [] name = "^" -> RPow(x, y)

\* C16: a binary arithmetic handler applied to a list s ++ [x, y] leaves
\* s ++ [x OP y]: the second value from the top is the left operand, the top
\* the right one, and the values below them stay as they are.
C16_BinaryFrame ==
    \A name \in C16_Names :
        Applied(name) =>
            /\ Len(pre) >= 2
            /\ stack = Append(SubSeq(pre, 1, Len(pre) - 2),
                              C16_Value(name, pre[Len(pre) - 1], pre[Len(pre)]))

C16_Witness ==
    /\ Applied("-")
    /\ Len(pre) >= 4
    /\ pre[Len(pre) - 1] # pre[Len(pre)]
    /\ pre[1] # pre[2]
    /\ Len(stack) = Len(pre) - 1
    /\ SubSeq(stack, 1, 2) = SubSeq(pre, 1, 2)

\* one step of the model: an operator or function application that completes
C17_Application ==
    /\ pc = "eval"
    /\ idx <= Len(rpn)
    /\ tok.type \in {"Operator", "Function"}
    /\ idx' = idx + 1

\* C17: the register is 0 when the calculator is created; an application that
\* completes leaves in it the value it returned, which is the value it pushed;
\* every other step (Literal, Constant and Separator tokens, applications that
\* fail, the end of a call and the start of the next) leaves it unchanged.
C17_RegisterInvariant ==
    /\ ans = Num(0)
    /\ [][IF C17_Application
          THEN stack' # <<>> /\ ans' = Top(stack')
          ELSE ans' = ans]_vars

C17_Witness ==
    /\ prog # "expression"
    /\ Len(history) = 2
    /\ history[1].applied
    /\ history[1].outcome = "returned"
    /\ history[1].ans = history[1].stack[1]
    /\ history[1].ans # Num(0)
    /\ history[2].outcome \in {"IndexError", "ZeroDivisionError", UnknownName}
    /\ Len(history[2].expr) >= 2
    /\ ~history[2].applied
    /\ ans = history[1].ans

\* the last token eval processed without failure was a Constant token
C18_PassedConstant ==
    /\ idx > 1
    /\ error \in {"", "Warning"}
    /\ rpn[idx - 1].type = "Constant"

\* C18: a Constant token named e or pi pushes that constant, a Constant token
\* of any other name makes eval fail instead of being passed over, and tokenize
\* yields no Constant token but those named e and pi.
C18_Constants ==
    /\ C18_PassedConstant =>
          /\ rpn[idx - 1].value \in {"e", "pi"}
          /\ rpn[idx - 1].value = "e" => stack = Append(pre, MathE)
          /\ rpn[idx - 1].value = "pi" => stack = Append(pre, MathPi)
    /\ (prog = "expression" /\ text # <<>> /\ pc # "tokenize") =>
          \A i \in 1..Len(tokens) :
              tokens[i].type = "Constant" => tokens[i].value \in {"e", "pi"}

\* C19: every name of the registry can be entered as text: between blanks it
\* tokenizes, without failure, to exactly one Operator or Function token whose
\* value is that name.
C19_RegistryReachable ==
    /\ {Join(n) : n \in RegistryNames} = operators
    /\ \A n \in RegistryNames :
          (prog = "expression" /\ text = <<" ">> \o n \o <<" ">>) =>
              /\ pc # "tokenize raised"
              /\ pc # "tokenize" =>
                    \E type \in {"Operator", "Function"} : tokens = <<Token(type, Join(n))>>

\* the values a handler takes from the list
C20_Arity(name) ==
    IF name \in {"+", "-", "*", "/", "%", "^", "log", "max", "min"} THEN 2
    ELSE IF name \in UnaryNames THEN 1
    ELSE 0

\* eval has failed at the application of a handler to fewer values than it takes
C20_Underflow ==
    /\ pc \in {"prompt", "crashed", "eval raised"}
    /\ error \notin {"", "Warning"}
    /\ idx <= Len(rpn)
    /\ rpn[idx].type \in {"Operator", "Function"}
    /\ rpn[idx].value \in operators
    /\ Len(pre) < C20_Arity(rpn[idx].value)

\* C20: the application of a fixed-arity handler to a list holding fewer values
\* than it takes fails and leaves the list holding the values it held before
\* that token, in the same order.
C20_AtomicUnderflow ==
    C20_Underflow =>
        /\ error = "IndexError"
        /\ stack = pre
        /\ shared => held = pre

====
